---- MODULE Spec2Model ----
(***************************************************************************)
(* CoinGecko MCP server: the coin cache (CoinGeckoService), its upstream   *)
(* calls and the CallToolRequestSchema handler, as a state machine.        *)
(*                                                                         *)
(* JavaScript numbers are modelled in fixed point: the integer k stands    *)
(* for the number k / Den, so that the non-integer values z.number()       *)
(* accepts are part of the model.  Strings are sequences of characters so  *)
(* that toLowerCase really converts.  A Date is its clock reading; null    *)
(* and undefined values are the empty sequence, a present value v is <<v>>.*)
(***************************************************************************)
EXTENDS Integers, Sequences, FiniteSets, TLC

\* ---------------------------------------------------------------- bounds
MaxReq == 2
MaxClock == 3
Den == 2

\* ------------------------------------------------------ program constants
DefaultPage == 1
DefaultPageSize == 100
MinPage == 1
MinPageSize == 1
MaxPageSize == 1000
MsPerSecond == 1000

\* ---------------------------------------------------------------- strings
LowerChar(c) ==
  CASE c = "B" -> "b"
    [] c = "T" -> "t"
    [] c = "C" -> "c"
    [] c = "I" -> "i"
    [] c = "E" -> "e"
    [] c = "H" -> "h"
    [] c = "N" -> "n"
    [] c = "L" -> "l"
    [] OTHER -> c

toLowerCase(s) == [i \in 1..Len(s) |-> LowerChar(s[i])]

\* ------------------------------------------------------------ JS numbers
\* Math.trunc of n / d (d > 0), the ToIntegerOrInfinity of Array.prototype.slice
Trunc(n, d) == IF n >= 0 THEN n \div d ELSE -((-n) \div d)

\* Math.ceil of n / d (d > 0)
MathCeil(n, d) == -((-n) \div d)

Max2(a, b) == IF a >= b THEN a ELSE b
Min2(a, b) == IF a <= b THEN a ELSE b

\* Array.prototype.slice(start, end) with start = sn / sd and end = en / sd
slice(a, sn, en, sd) ==
  LET len      == Len(a)
      relStart == Trunc(sn, sd)
      relEnd   == Trunc(en, sd)
      k        == IF relStart < 0 THEN Max2(len + relStart, 0) ELSE Min2(relStart, len)
      final    == IF relEnd < 0 THEN Max2(len + relEnd, 0) ELSE Min2(relEnd, len)
  IN  SubSeq(a, k + 1, final)

\* ------------------------------------------------------- CoinGeckoService
None == <<>>
Some(v) == <<v>>

\* getCoins(page, pageSize): page = p / Den, pageSize = s / Den
getCoins(cs, p, s) ==
  LET start == (p - Den) * s
      end   == start + s * Den
  IN  slice(cs, start, end, Den * Den)

\* variant: an empty cache counts as one page
getTotalPages_atLeastOne(cs, s) == Max2(1, MathCeil(Len(cs) * Den, s))

\* variant: Math.floor in place of Math.ceil
getTotalPages_floor(cs, s) == (Len(cs) * Den) \div s

\* getTotalPages(pageSize): Math.ceil(this.coins.length / pageSize)
getTotalPages(cs, s) == MathCeil(Len(cs) * Den, s)

getLastUpdated(lu) == lu

\* Array.prototype.find: the first element satisfying the predicate, or undefined
FindCoin(cs, normalizedName) ==
  LET hits == {i \in 1..Len(cs) : toLowerCase(cs[i].name) = normalizedName
                                  \/ toLowerCase(cs[i].symbol) = normalizedName}
  IN  IF hits = {} THEN None
      ELSE Some(cs[CHOOSE i \in hits : \A j \in hits : i <= j])

\* coin?.id || null : an undefined coin and a falsy (empty) id both give null
IdOrNull(coin) ==
  IF coin = None THEN None
  ELSE IF coin[1].id = <<>> THEN None ELSE Some(coin[1].id)

findCoinIds(cs, coinNames) ==
  [i \in 1..Len(coinNames) |->
     [name |-> coinNames[i],
      id   |-> IdOrNull(FindCoin(cs, toLowerCase(coinNames[i])))]]

\* ------------------------------------------------------- argument values
\* A JSON value of a tool call's argument bag, tagged with its typeof.
Undef == [t |-> "undefined"]
Num(k) == [t |-> "number", n |-> k]
Str(x) == [t |-> "string", s |-> x]
Arr(x) == [t |-> "array", a |-> x]
Obj(fields) == [t |-> "object", o |-> fields]

\* ------------------------------------------------------------ zod schemas
zNumber(lo, hi, opt) == [type |-> "number", optional |-> opt, min |-> lo, max |-> hi, values |-> {}]
zString == [type |-> "string", optional |-> FALSE, min |-> None, max |-> None, values |-> {}]
zEnum(vals, opt) == [type |-> "enum", optional |-> opt, min |-> None, max |-> None, values |-> vals]
zArrayOfString == [type |-> "array", optional |-> FALSE, min |-> None, max |-> None, values |-> {}]

\* variant: pageSize without .max(1000)
GetCoinsArgumentsSchema_noMax ==
  [page     |-> zNumber(Some(MinPage), None, TRUE),
   pageSize |-> zNumber(Some(MinPageSize), None, TRUE)]

GetCoinsArgumentsSchema ==
  [page     |-> zNumber(Some(MinPage), None, TRUE),
   pageSize |-> zNumber(Some(MinPageSize), Some(MaxPageSize), TRUE)]

FindCoinIdsArgumentsSchema ==
  [coins |-> zArrayOfString]

GetHistoricalDataArgumentsSchema ==
  [id          |-> zString,
   vs_currency |-> zString,
   from        |-> zNumber(None, None, FALSE),
   to          |-> zNumber(None, None, FALSE),
   interval    |-> zEnum({"5m", "hourly", "daily"}, TRUE)]

GetOHLCDataArgumentsSchema ==
  [id          |-> zString,
   vs_currency |-> zString,
   from        |-> zNumber(None, None, FALSE),
   to          |-> zNumber(None, None, FALSE),
   interval    |-> zEnum({"daily", "hourly"}, FALSE)]

\* ------------------------------------------------------ tool descriptors
\* one entry of a JSON-schema `properties` object
Prop(type, enum) == [type |-> type, enum |-> enum]

GetCoinsProperties == [page |-> Prop("number", {}), pageSize |-> Prop("number", {})]

FindCoinIdsProperties == [coins |-> Prop("array", {})]

RangeProperties(intervals) ==
  [id          |-> Prop("string", {}),
   vs_currency |-> Prop("string", {}),
   from        |-> Prop("number", {}),
   to          |-> Prop("number", {}),
   interval    |-> Prop("string", intervals)]

Descriptor(name, properties, required) ==
  [name |-> name, properties |-> properties, required |-> required]

\* the tools the ListToolsRequestSchema handler lists
ListTools ==
  << Descriptor("get-coins", GetCoinsProperties, {}),
     Descriptor("find-coin-ids", FindCoinIdsProperties, {"coins"}),
     Descriptor("get-historical-data", RangeProperties({"5m", "hourly", "daily"}),
                {"id", "vs_currency", "from", "to"}),
     Descriptor("refresh-cache", <<>>, {}),
     Descriptor("get-ohlc-data", RangeProperties({"daily", "hourly"}),
                {"id", "vs_currency", "from", "to", "interval"}) >>

\* CoinGeckoService.getOpenAIFunctionDefinitions() of the built service
getOpenAIFunctionDefinitions ==
  << Descriptor("get_coins", GetCoinsProperties, {}),
     Descriptor("find_coin_ids", FindCoinIdsProperties, {"coins"}),
     Descriptor("get_historical_data", RangeProperties({"5m", "hourly", "daily"}),
                {"id", "vs_currency", "from", "to"}),
     Descriptor("refresh_cache", <<>>, {}),
     Descriptor("get_ohlc_data", RangeProperties({"daily", "hourly"}),
                {"id", "vs_currency", "from", "to", "interval"}) >>

\* CoinGeckoService.getOpenAIFunctionDefinitions() of the TypeScript source
getOpenAIFunctionDefinitionsTS ==
  << Descriptor("get_coins", GetCoinsProperties, {}),
     Descriptor("find_coin_ids", FindCoinIdsProperties, {"coins"}),
     Descriptor("get_historical_data", RangeProperties({"5m", "hourly", "daily"}),
                {"id", "vs_currency", "from", "to"}),
     Descriptor("refresh_cache", <<>>, {}) >>

\* the schema the dispatcher parses the arguments of a tool with; the
\* refresh-cache branch parses nothing
SchemaOf(name) ==
  CASE name = "get-coins"           -> GetCoinsArgumentsSchema
    [] name = "find-coin-ids"       -> FindCoinIdsArgumentsSchema
    [] name = "get-historical-data" -> GetHistoricalDataArgumentsSchema
    [] name = "get-ohlc-data"       -> GetOHLCDataArgumentsSchema
    [] name = "refresh-cache"       -> <<>>

Issue(path, code) == [path |-> path, code |-> code]

\* The issues zod raises for the value v of field f declared as fs
FieldIssues(f, fs, v) ==
  IF v.t = "undefined"
  THEN IF fs.optional THEN {} ELSE {Issue(<<f>>, "invalid_type")}
  ELSE CASE fs.type = "number" ->
              IF v.t # "number" THEN {Issue(<<f>>, "invalid_type")}
              ELSE (IF fs.min # None /\ v.n < fs.min[1] * Den
                    THEN {Issue(<<f>>, "too_small")} ELSE {})
                   \cup
                   (IF fs.max # None /\ v.n > fs.max[1] * Den
                    THEN {Issue(<<f>>, "too_big")} ELSE {})
         [] fs.type = "string" ->
              IF v.t # "string" THEN {Issue(<<f>>, "invalid_type")} ELSE {}
         [] fs.type = "enum" ->
              IF v.t # "string" THEN {Issue(<<f>>, "invalid_type")}
              ELSE IF v.s \notin fs.values THEN {Issue(<<f>>, "invalid_enum_value")}
              ELSE {}
         [] fs.type = "array" ->
              IF v.t # "array" THEN {Issue(<<f>>, "invalid_type")}
              ELSE {Issue(<<f, i - 1>>, "invalid_type") :
                      i \in {j \in 1..Len(v.a) : v.a[j].t # "string"}}

\* schema.parse(args): z.object rejects a missing bag at the root path and
\* otherwise collects the issues of every declared field
Parse(schema, args) ==
  LET issues == IF args.t # "object" THEN {Issue(<<>>, "invalid_type")}
                ELSE UNION {FieldIssues(f, schema[f], args.o[f]) : f \in DOMAIN schema}
  IN  [ok |-> issues = {}, issues |-> issues]

\* ------------------------------------------------------------- responses
toISOString(d) == [iso |-> d]

TextContent(payload) == [isError |-> FALSE, content |-> payload]
ThrowError(kind, detail) == [isError |-> TRUE, error |-> kind, issues |-> detail]

\* the catch block of the handler: a ZodError becomes "Invalid arguments: <path>: <message>, ..."
InvalidArguments(issues) == ThrowError("Invalid arguments", issues)
UpstreamError == ThrowError("API request failed", {})
UnknownTool == ThrowError("Unknown tool", {})

\* result of the synchronous part of a tool call
Sync(res, calls) == [pc |-> "done", result |-> Some(res), serviceCalls |-> calls, url |-> None]
Await(calls, url) == [pc |-> "fetch", result |-> None, serviceCalls |-> calls, url |-> Some(url)]

\* destructuring with a default: the default applies to an undefined field
ArgOr(args, f, dflt) == IF args.o[f].t = "undefined" THEN dflt ELSE args.o[f].n

\* name === "get-coins"
CallGetCoins(args, cs, lu) ==
  LET parsed == Parse(GetCoinsArgumentsSchema, args)
  IN  IF ~parsed.ok THEN Sync(InvalidArguments(parsed.issues), 0)
      ELSE LET page        == ArgOr(args, "page", DefaultPage * Den)
               pageSize    == ArgOr(args, "pageSize", DefaultPageSize * Den)
               cns         == getCoins(cs, page, pageSize)
               totalPages  == getTotalPages(cs, pageSize)
               lastUpd     == getLastUpdated(lu)
           IN  Sync(TextContent(
                      [coins       |-> cns,
                       pagination  |-> [currentPage |-> page,
                                        totalPages  |-> totalPages,
                                        pageSize    |-> pageSize],
                       lastUpdated |-> IF lastUpd = None THEN None
                                       ELSE Some(toISOString(lastUpd[1]))]), 3)

\* name === "find-coin-ids"
CallFindCoinIds(args, cs) ==
  LET parsed == Parse(FindCoinIdsArgumentsSchema, args)
  IN  IF ~parsed.ok THEN Sync(InvalidArguments(parsed.issues), 0)
      ELSE Sync(TextContent(findCoinIds(cs, [i \in 1..Len(args.o.coins.a) |-> args.o.coins.a[i].s])), 1)

\* the URL getHistoricalData builds: interval is appended only when truthy
HistoricalUrl(args) ==
  [endpoint    |-> "market_chart/range",
   id          |-> args.o.id.s,
   vs_currency |-> args.o.vs_currency.s,
   from        |-> args.o.from.n,
   to          |-> args.o.to.n,
   interval    |-> IF args.o.interval.t = "undefined" THEN None ELSE Some(args.o.interval.s)]

\* name === "get-historical-data", up to the await
CallGetHistoricalData(args) ==
  LET parsed == Parse(GetHistoricalDataArgumentsSchema, args)
  IN  IF ~parsed.ok THEN Sync(InvalidArguments(parsed.issues), 0)
      ELSE Await(1, HistoricalUrl(args))

OHLCUrl(args) ==
  [endpoint    |-> "ohlc/range",
   id          |-> args.o.id.s,
   vs_currency |-> args.o.vs_currency.s,
   from        |-> args.o.from.n,
   to          |-> args.o.to.n,
   interval    |-> Some(args.o.interval.s)]

\* name === "get-ohlc-data", up to the await
CallGetOHLCData(args) ==
  LET parsed == Parse(GetOHLCDataArgumentsSchema, args)
  IN  IF ~parsed.ok THEN Sync(InvalidArguments(parsed.issues), 0)
      ELSE Await(1, OHLCUrl(args))

CoinListUrl == [endpoint |-> "coins/list"]

\* name === "refresh-cache", up to the await: the arguments are not parsed
CallRefreshCache == Await(1, CoinListUrl)

\* variant: the argument bag is required to be an object before the name is looked at
CallToolHandler_parseFirst(name, args, cs, lu) ==
  IF args.t # "object" /\ name # "refresh-cache"
  THEN Sync(InvalidArguments({Issue(<<>>, "invalid_type")}), 0)
  ELSE CASE name = "get-coins"           -> CallGetCoins(args, cs, lu)
         [] name = "find-coin-ids"       -> CallFindCoinIds(args, cs)
         [] name = "get-historical-data" -> CallGetHistoricalData(args)
         [] name = "refresh-cache"       -> CallRefreshCache
         [] name = "get-ohlc-data"       -> CallGetOHLCData(args)
         [] OTHER                        -> Sync(UnknownTool, 0)

\* the dispatch of the CallToolRequestSchema handler
CallToolHandler(name, args, cs, lu) ==
  CASE name = "get-coins"           -> CallGetCoins(args, cs, lu)
    [] name = "find-coin-ids"       -> CallFindCoinIds(args, cs)
    [] name = "get-historical-data" -> CallGetHistoricalData(args)
    [] name = "refresh-cache"       -> CallRefreshCache
    [] name = "get-ohlc-data"       -> CallGetOHLCData(args)
    [] OTHER                        -> Sync(UnknownTool, 0)

\* name === "get-historical-data" / "get-ohlc-data" after the await:
\* new Date(x) keeps the integral part of x milliseconds
NewDate(k) == Trunc(k, Den)

TimeRange(args) ==
  [from |-> toISOString(NewDate(args.o.from.n * MsPerSecond)),
   to   |-> toISOString(NewDate(args.o.to.n * MsPerSecond))]

\* variant: the seconds are not converted to milliseconds
HistoricalResponse_seconds(args, data) ==
  TextContent([timeRange |-> [from |-> toISOString(NewDate(args.o.from.n)),
                              to   |-> toISOString(NewDate(args.o.to.n))],
               interval  |-> IF args.o.interval.t = "undefined" THEN "auto"
                             ELSE args.o.interval.s,
               data      |-> data])

HistoricalResponse(args, data) ==
  TextContent([timeRange |-> TimeRange(args),
               interval  |-> IF args.o.interval.t = "undefined" THEN "auto"
                             ELSE args.o.interval.s,
               data      |-> data])

\* variant: the tuple is destructured as [timestamp, open, low, high, close]
OHLCMap_lowHigh(data) ==
  [i \in 1..Len(data) |->
     [timestamp |-> data[i][1], open |-> data[i][2], high |-> data[i][4],
      low |-> data[i][3], close |-> data[i][5]]]

\* data.map(([timestamp, open, high, low, close]) => ({...}))
OHLCMap(data) ==
  [i \in 1..Len(data) |->
     [timestamp |-> data[i][1], open |-> data[i][2], high |-> data[i][3],
      low |-> data[i][4], close |-> data[i][5]]]

OHLCResponse(args, data) ==
  TextContent([timeRange |-> TimeRange(args),
               interval  |-> args.o.interval.s,
               data      |-> OHLCMap(data)])

\* name === "refresh-cache" after the await
RefreshResponse(lu) ==
  LET lastUpd == getLastUpdated(lu)
  IN  TextContent([refreshedAt |-> IF lastUpd = None THEN None
                                   ELSE Some(toISOString(lastUpd[1]))])

\* variants of refreshCoinList with a plausible slip each
\* this.lastUpdated = new Date() is missing
refreshCoinList_coinsOnly(snap, outcome, body, now) ==
  IF outcome = "ok"
  THEN [coins |-> body, lastUpdated |-> snap.lastUpdated, threw |-> FALSE]
  ELSE [coins |-> snap.coins, lastUpdated |-> snap.lastUpdated, threw |-> TRUE]

\* this.coins = [] before the fetch
refreshCoinList_clearFirst(snap, outcome, body, now) ==
  IF outcome = "ok"
  THEN [coins |-> body, lastUpdated |-> Some(now), threw |-> FALSE]
  ELSE [coins |-> <<>>, lastUpdated |-> snap.lastUpdated, threw |-> TRUE]

\* this.coins.push(...body) instead of the assignment
refreshCoinList_merge(snap, outcome, body, now) ==
  IF outcome = "ok"
  THEN [coins |-> snap.coins \o body, lastUpdated |-> Some(now), threw |-> FALSE]
  ELSE [coins |-> snap.coins, lastUpdated |-> snap.lastUpdated, threw |-> TRUE]

\* this.lastUpdated = new Date() before the await of response.json()
refreshCoinList_stampFirst(snap, outcome, body, now) ==
  IF outcome = "ok"
  THEN [coins |-> body, lastUpdated |-> Some(now), threw |-> FALSE]
  ELSE IF outcome = "badjson"
  THEN [coins |-> snap.coins, lastUpdated |-> Some(now), threw |-> TRUE]
  ELSE [coins |-> snap.coins, lastUpdated |-> snap.lastUpdated, threw |-> TRUE]

\* a populated cache is not fetched into again
refreshCoinList_keepFirst(snap, outcome, body, now) ==
  IF outcome = "ok"
  THEN IF snap.lastUpdated = None
       THEN [coins |-> body, lastUpdated |-> Some(now), threw |-> FALSE]
       ELSE [coins |-> snap.coins, lastUpdated |-> snap.lastUpdated, threw |-> FALSE]
  ELSE [coins |-> snap.coins, lastUpdated |-> snap.lastUpdated, threw |-> TRUE]

\* the catch block clears the stamp to mark the cache stale
refreshCoinList_unstampOnFail(snap, outcome, body, now) ==
  IF outcome = "ok"
  THEN [coins |-> body, lastUpdated |-> Some(now), threw |-> FALSE]
  ELSE [coins |-> snap.coins, lastUpdated |-> None, threw |-> TRUE]

\* the catch block invalidates the cache
refreshCoinList_resetOnFail(snap, outcome, body, now) ==
  IF outcome = "ok"
  THEN [coins |-> body, lastUpdated |-> Some(now), threw |-> FALSE]
  ELSE [coins |-> <<>>, lastUpdated |-> None, threw |-> TRUE]

\* refreshCoinList: the effect on the snapshot of one upstream outcome.
\* "reject": fetch rejects; "notok": !response.ok; "badjson": response.json()
\* rejects; "ok": the body parses to the catalog `body`, read at time `now`.
refreshCoinList(snap, outcome, body, now) ==
  IF outcome = "ok"
  THEN [coins |-> body, lastUpdated |-> Some(now), threw |-> FALSE]
  ELSE [coins |-> snap.coins, lastUpdated |-> snap.lastUpdated, threw |-> TRUE]

\* the error an upstream outcome raises
ErrorOf(outcome) ==
  CASE outcome = "reject"  -> ThrowError("fetch failed", {})
    [] outcome = "notok"   -> UpstreamError
    [] outcome = "badjson" -> ThrowError("SyntaxError", {})

\* ------------------------------------------------------ upstream data
Ch(a, b, c) == <<a, b, c>>

Bit == [id |-> Ch("b","i","t"), symbol |-> Ch("b","t","c"), name |-> Ch("B","i","t")]
Eth == [id |-> Ch("e","t","h"), symbol |-> Ch("E","T","H"), name |-> Ch("E","t","h")]
Bt2 == [id |-> Ch("b","t","2"), symbol |-> Ch("b","i","t"), name |-> Ch("B","t","c")]
Nil == [id |-> <<>>, symbol |-> Ch("n","i","l"), name |-> Ch("N","i","l")]

Catalogs ==
  { <<>>, <<Bt2, Bit>>, <<Nil, Bit, Eth>> }

HistBodies ==
  { [prices |-> <<>>, market_caps |-> <<>>, total_volumes |-> <<>>],
    [prices |-> <<<<1, 10>>>>, market_caps |-> <<<<1, 20>>>>, total_volumes |-> <<<<1, 30>>>>] }

OhlcBodies ==
  { <<>>, <<<<1, 5, 7, 4, 6>>>>, <<<<1, 5, 7, 4, 6>>, <<2, 6, 8, 5, 7>>>> }

\* ---------------------------------------------------------- tool calls
QueryNames ==
  { Ch("B","T","C"), Ch("b","i","t"), Ch("E","t","h"), Ch("n","i","l"), <<"b","i">>, <<>> }

PageValues ==
  { Undef, Str("2"), Num(Den - 1), Num(Den), Num(Den + 1), Num(2 * Den),
    Num(2 * Den + 1), Num(3 * Den) }

PageSizeValues ==
  { Undef, Str("10"), Num(Den - 1), Num(Den), Num(Den + 1), Num(2 * Den),
    Num(MaxPageSize * Den), Num(MaxPageSize * Den + 1), Num(5 * MaxPageSize * Den) }

GetCoinsArgs ==
  {Undef} \cup {Obj([page |-> pg, pageSize |-> ps]) : pg \in PageValues, ps \in PageSizeValues}

FindCoinIdsArgs ==
  {Undef, Obj([coins |-> Undef]), Obj([coins |-> Str(Ch("b","t","c"))]), Obj([coins |-> Arr(<<>>)])}
  \cup {Obj([coins |-> Arr(<<x>>)]) : x \in {Str(n) : n \in QueryNames} \cup {Num(Den)}}
  \cup {Obj([coins |-> Arr(<<Str(Ch("B","T","C")), Str(Ch("b","i","t")), x>>)]) :
          x \in {Str(<<"b","i">>), Str(Ch("e","t","h")), Num(Den)}}

RangeArgs(intervals) ==
  {Undef}
  \cup {Obj([id |-> Str("bitcoin"), vs_currency |-> Str("usd"),
             from |-> Num(Den + 1), to |-> Num(2 * Den), interval |-> iv]) : iv \in intervals}
  \cup {Obj([id |-> i, vs_currency |-> Str("usd"), from |-> f, to |-> Num(2 * Den),
             interval |-> Str("daily")]) : i \in {Undef, Num(Den)}, f \in {Undef, Str("0")}}
  \cup {Obj([id |-> Str("bitcoin"), vs_currency |-> Undef, from |-> Num(0), to |-> Undef,
             interval |-> Str("hourly")])}

IntervalValues == {Undef, Num(5 * Den), Str("5m"), Str("hourly"), Str("daily"), Str("weekly")}

KnownTools ==
  {"get-coins", "find-coin-ids", "get-historical-data", "refresh-cache", "get-ohlc-data"}

ToolNames == KnownTools \cup {"get-price", "get_coins", "refresh_cache"}

\* the argument bags tried when one call is handled at a time
ArgsOf(name) ==
  CASE name = "get-coins"           -> GetCoinsArgs
    [] name = "find-coin-ids"       -> FindCoinIdsArgs
    [] name = "get-historical-data" -> RangeArgs(IntervalValues)
    [] name = "get-ohlc-data"       -> RangeArgs(IntervalValues)
    [] OTHER                        -> {Undef, Obj([page |-> Num(Den)])}

\* the argument bags tried when calls overlap
FewArgsOf(name) ==
  CASE name = "get-coins" ->
         {Obj([page |-> Undef, pageSize |-> Undef]),
          Obj([page |-> Num(2 * Den), pageSize |-> Num(Den)]),
          Obj([page |-> Num(Den), pageSize |-> Num(5 * MaxPageSize * Den)])}
    [] name = "find-coin-ids" ->
         {Obj([coins |-> Arr(<<Str(Ch("B","T","C")), Str(<<"b","i">>)>>)]), Obj([coins |-> Undef])}
    [] name = "get-historical-data" -> RangeArgs({Str("hourly")})
    [] name = "get-ohlc-data"       -> RangeArgs({Str("hourly")})
    [] OTHER                        -> {Undef}

\* ------------------------------------------------------------- the state
VARIABLES coins, lastUpdated, clock, alive, proc, finished, lastStore

vars == <<coins, lastUpdated, clock, alive, proc, finished, lastStore>>

Startup == 0
Procs == 0..MaxReq
Requests == 1..MaxReq

\* a request slot: its position in the handler (pc), the call it serves, the
\* service methods it has called, the upstream requests it has issued (sent),
\* the last outcome upstream gave it (got) and, for a refresh-cache call that
\* has returned from refreshCoinList, the Date it stored (stored)
Idle == [pc |-> "idle", name |-> "", args |-> Undef, serviceCalls |-> 0, sent |-> <<>>,
         got |-> None, stored |-> None]

\* after the constructor: the cache is empty and the unawaited startup
\* refreshCoinList() has issued its fetch
Init ==
  /\ coins = <<>>
  /\ lastUpdated = None
  /\ clock = 1
  /\ alive = TRUE
  /\ proc = [p \in Procs |->
               IF p = Startup
               THEN [pc |-> "fetch", name |-> "startup", args |-> Undef,
                     serviceCalls |-> 1, sent |-> <<CoinListUrl>>, got |-> None,
                     stored |-> None]
               ELSE Idle]
  /\ finished = None
  /\ lastStore = None

IsRefresh(p) == proc[p].name \in {"startup", "refresh-cache"}

\* the end of the invocation of p: what it answers, and the body it got from
\* response.json() if it answers from one
Outcome(p, cause, res) ==
  Some([proc |-> p, name |-> proc[p].name, args |-> proc[p].args, cause |-> cause,
        result |-> res, serviceCalls |-> proc[p].serviceCalls, sent |-> proc[p].sent,
        received |-> None])

OutcomeFrom(p, cause, res, body) ==
  Some([Outcome(p, cause, res)[1] EXCEPT !.received = Some(body)])

\* variant: process.exit(1) in the catch of refreshCoinList itself
Throw_exitInRefresh(p, cause) ==
  /\ finished' = Outcome(p, cause, ErrorOf(cause))
  /\ IF p = Startup
     THEN /\ alive' = FALSE
          /\ proc' = [proc EXCEPT ![p].pc = "done", ![p].got = Some(cause)]
     ELSE /\ alive' = (alive /\ ~IsRefresh(p))
          /\ proc' = [proc EXCEPT ![p] = Idle]

\* the invocation of p ends by throwing: a tool call is answered with the
\* error; the .catch of the startup refresh calls process.exit(1)
Throw(p, cause) ==
  /\ finished' = Outcome(p, cause, ErrorOf(cause))
  /\ IF p = Startup
     THEN /\ alive' = FALSE
          /\ proc' = [proc EXCEPT ![p].pc = "done", ![p].got = Some(cause)]
     ELSE /\ alive' = alive
          /\ proc' = [proc EXCEPT ![p] = Idle]

\* variant: a call is taken up only when no other invocation is pending
CallTool_serialized(r, name, args) ==
  /\ alive
  /\ finished = None
  /\ proc[r].pc = "idle"
  /\ \A q \in Procs : proc[q].pc \in {"idle", "done"}
  /\ LET h == CallToolHandler(name, args, coins, lastUpdated)
     IN  IF h.pc = "done"
         THEN /\ finished' = Some([proc |-> r, name |-> name, args |-> args, cause |-> "sync",
                                   result |-> h.result[1], serviceCalls |-> h.serviceCalls,
                                   sent |-> <<>>, received |-> None])
              /\ proc' = proc
         ELSE /\ proc' = [proc EXCEPT ![r] = [pc |-> "fetch", name |-> name, args |-> args,
                                              serviceCalls |-> h.serviceCalls,
                                              sent |-> <<h.url[1]>>, got |-> None,
                                              stored |-> None]]
              /\ finished' = finished
  /\ UNCHANGED <<coins, lastUpdated, clock, alive, lastStore>>

\* a CallToolRequest arrives and the handler runs up to its first await
CallTool(r, name, args) ==
  /\ alive
  /\ finished = None
  /\ proc[r].pc = "idle"
  /\ \A q \in 1..(r - 1) : proc[q].pc # "idle"
  /\ LET h == CallToolHandler(name, args, coins, lastUpdated)
     IN  IF h.pc = "done"
         THEN /\ finished' = Some([proc |-> r, name |-> name, args |-> args, cause |-> "sync",
                                   result |-> h.result[1], serviceCalls |-> h.serviceCalls,
                                   sent |-> <<>>, received |-> None])
              /\ proc' = proc
         ELSE /\ proc' = [proc EXCEPT ![r] = [pc |-> "fetch", name |-> name, args |-> args,
                                              serviceCalls |-> h.serviceCalls,
                                              sent |-> <<h.url[1]>>, got |-> None,
                                              stored |-> None]]
              /\ finished' = finished
  /\ UNCHANGED <<coins, lastUpdated, clock, alive, lastStore>>

\* variant: a rejected fetch is issued once more
FetchSettles_retry(p, outcome) ==
  /\ alive
  /\ finished = None
  /\ proc[p].pc = "fetch"
  /\ IF outcome = "ok"
     THEN /\ proc' = [proc EXCEPT ![p].pc = "json", ![p].got = Some(outcome)]
          /\ UNCHANGED <<coins, lastUpdated, alive, finished>>
     ELSE IF outcome = "notok" /\ proc[p].name = "get-ohlc-data"
     THEN /\ proc' = [proc EXCEPT ![p].pc = "text", ![p].got = Some(outcome)]
          /\ UNCHANGED <<coins, lastUpdated, alive, finished>>
     ELSE IF outcome = "reject" /\ Len(proc[p].sent) < 2
     THEN /\ proc' = [proc EXCEPT ![p].sent = Append(@, @[1])]
          /\ UNCHANGED <<coins, lastUpdated, alive, finished>>
     ELSE /\ UNCHANGED <<coins, lastUpdated>>
          /\ Throw(p, outcome)
  /\ UNCHANGED <<clock, lastStore>>

\* the fetch promise of p settles
FetchSettles(p, outcome) ==
  /\ alive
  /\ finished = None
  /\ proc[p].pc = "fetch"
  /\ IF outcome = "ok"
     THEN /\ proc' = [proc EXCEPT ![p].pc = "json", ![p].got = Some(outcome)]
          /\ UNCHANGED <<coins, lastUpdated, alive, finished>>
     ELSE IF outcome = "notok" /\ proc[p].name = "get-ohlc-data"
     THEN /\ proc' = [proc EXCEPT ![p].pc = "text", ![p].got = Some(outcome)]
          /\ UNCHANGED <<coins, lastUpdated, alive, finished>>
     ELSE /\ IF IsRefresh(p)
             THEN LET s == refreshCoinList([coins |-> coins, lastUpdated |-> lastUpdated],
                                           outcome, <<>>, clock)
                  IN  /\ coins' = s.coins
                      /\ lastUpdated' = s.lastUpdated
             ELSE UNCHANGED <<coins, lastUpdated>>
          /\ Throw(p, outcome)
  /\ UNCHANGED <<clock, lastStore>>

\* getOHLCData on !response.ok: await response.text(), then throw
TextSettles(p) ==
  /\ alive
  /\ finished = None
  /\ proc[p].pc = "text"
  /\ Throw(p, "notok")
  /\ UNCHANGED <<coins, lastUpdated, clock, lastStore>>

\* the response.json() promise of a refresh settles; new Date() reads `now`,
\* which the system clock does not let fall below an earlier reading
RefreshJsonSettles(p, outcome, body, now) ==
  /\ alive
  /\ finished = None
  /\ proc[p].pc = "json"
  /\ IsRefresh(p)
  /\ LET s == refreshCoinList([coins |-> coins, lastUpdated |-> lastUpdated],
                              outcome, body, now)
     IN  /\ coins' = s.coins
         /\ lastUpdated' = s.lastUpdated
         /\ IF s.threw
            THEN Throw(p, outcome)
            ELSE /\ proc' = [proc EXCEPT ![p].pc = IF p = Startup THEN "done" ELSE "resumed",
                                          ![p].got = Some(outcome),
                                          ![p].stored = IF p = Startup THEN None
                                                        ELSE s.lastUpdated]
                 /\ UNCHANGED <<alive, finished>>
  /\ lastStore' = IF outcome = "ok"
                  THEN Some([coins |-> body, at |-> now])
                  ELSE lastStore
  /\ clock' = now

\* variant: a range request that succeeds stamps the cache
DataJsonSettles_stamps(p, outcome, body) ==
  /\ alive
  /\ finished = None
  /\ proc[p].pc = "json"
  /\ ~IsRefresh(p)
  /\ IF outcome = "ok"
     THEN /\ finished' = OutcomeFrom(p, outcome,
                                     IF proc[p].name = "get-ohlc-data"
                                     THEN OHLCResponse(proc[p].args, body)
                                     ELSE HistoricalResponse(proc[p].args, body),
                                     body)
          /\ proc' = [proc EXCEPT ![p] = Idle]
          /\ alive' = alive
          /\ lastUpdated' = Some(clock)
     ELSE Throw(p, outcome) /\ lastUpdated' = lastUpdated
  /\ UNCHANGED <<coins, clock, lastStore>>

\* the response.json() promise of a range request settles and its handler answers
DataJsonSettles(p, outcome, body) ==
  /\ alive
  /\ finished = None
  /\ proc[p].pc = "json"
  /\ ~IsRefresh(p)
  /\ IF outcome = "ok"
     THEN /\ finished' = OutcomeFrom(p, outcome,
                                     IF proc[p].name = "get-ohlc-data"
                                     THEN OHLCResponse(proc[p].args, body)
                                     ELSE HistoricalResponse(proc[p].args, body),
                                     body)
          /\ proc' = [proc EXCEPT ![p] = Idle]
          /\ alive' = alive
     ELSE Throw(p, outcome)
  /\ UNCHANGED <<coins, lastUpdated, clock, lastStore>>

\* the refresh-cache handler continues after await refreshCoinList()
HandlerResumes(r) ==
  /\ alive
  /\ finished = None
  /\ proc[r].pc = "resumed"
  /\ finished' = Outcome(r, "ok", RefreshResponse(lastUpdated))
  /\ proc' = [proc EXCEPT ![r] = Idle]
  /\ UNCHANGED <<coins, lastUpdated, clock, alive, lastStore>>

\* the answer (or the exit) of the finished invocation has been observed
Deliver ==
  /\ alive
  /\ finished # None
  /\ finished' = None
  /\ UNCHANGED <<coins, lastUpdated, clock, alive, proc, lastStore>>

Upstream ==
  \/ \E p \in Procs, outcome \in {"reject", "notok", "ok"} : FetchSettles(p, outcome)
  \/ \E p \in Procs : TextSettles(p)
  \/ \E p \in Procs : RefreshJsonSettles(p, "badjson", <<>>, clock)
  \/ \E p \in Procs, body \in Catalogs, now \in clock..MaxClock :
        RefreshJsonSettles(p, "ok", body, now)
  \/ \E p \in Procs : DataJsonSettles(p, "badjson", <<>>)
  \/ \E p \in Procs, body \in HistBodies :
        proc[p].name = "get-historical-data" /\ DataJsonSettles(p, "ok", body)
  \/ \E p \in Procs, body \in OhlcBodies :
        proc[p].name = "get-ohlc-data" /\ DataJsonSettles(p, "ok", body)
  \/ \E r \in Requests : HandlerResumes(r)
  \/ Deliver

\* overlapping tool calls
Next ==
  \/ \E r \in Requests, name \in ToolNames : \E args \in FewArgsOf(name) : CallTool(r, name, args)
  \/ Upstream

Spec == Init /\ [][Next]_vars

\* one tool call at a time (beside the startup refresh), every argument bag
NextSeq ==
  \/ \E name \in ToolNames : \E args \in ArgsOf(name) : CallTool(1, name, args)
  \/ Upstream

SpecSeq == Init /\ [][NextSeq]_vars

\* =================================================================
\* Properties
\* =================================================================
Failures == {"reject", "notok", "badjson"}

\* the outcome upstream gives to p in this step, if p is the one that moves
SettledWith(p) ==
  IF finished' # None /\ finished'[1].proc = p THEN Some(finished'[1].cause)
  ELSE proc'[p].got

\* this step is the end of a refresh of p that upstream failed
RefreshFails(p) ==
  /\ IsRefresh(p)
  /\ proc[p].pc \in {"fetch", "json"}
  /\ proc'[p] # proc[p]
  /\ SettledWith(p) # None
  /\ SettledWith(p)[1] \in Failures

\* this step is the end of a refresh of p whose body upstream delivered
RefreshSucceeds(p) ==
  /\ IsRefresh(p)
  /\ proc[p].pc = "json"
  /\ proc'[p] # proc[p]
  /\ SettledWith(p) = Some("ok")

\* the snapshot the last successful refresh received from upstream
Received ==
  IF lastStore = None THEN [coins |-> <<>>, lastUpdated |-> None]
  ELSE [coins |-> lastStore[1].coins, lastUpdated |-> Some(lastStore[1].at)]

Answered(name) ==
  /\ finished # None
  /\ finished[1].name = name
  /\ ~finished[1].result.isError

Range(f) == {f[i] : i \in DOMAIN f}

\* C1: a refresh that fails (fetch rejects, !response.ok, or response.json()
\* rejects) leaves coins and lastUpdated as they were, from the empty and from
\* the populated cache alike, and ends in an error raised to its caller (the
\* tool call is answered with the error, the startup refresh exits the process).
C1_FailedRefreshKeepsSnapshot ==
  [][\A p \in Procs :
       RefreshFails(p) =>
         /\ coins' = coins
         /\ lastUpdated' = lastUpdated
         /\ finished' # None
         /\ finished'[1].proc = p
         /\ finished'[1].result.isError
         /\ (p = Startup => ~alive')]_vars

C1_Witness ==
  /\ finished # None
  /\ finished[1].name = "refresh-cache"
  /\ finished[1].cause = "badjson"
  /\ finished[1].result.isError
  /\ lastUpdated # None
  /\ coins # <<>>

\* C2: a refresh that succeeds makes coins exactly the catalog upstream
\* returned, in its order, and sets lastUpdated in the same step; afterwards
\* get-coins and find-coin-ids answer only with records of that catalog.
C2_SuccessfulRefreshReplaces ==
  [][/\ \A p \in Procs :
          RefreshSucceeds(p) =>
            /\ lastStore' # None
            /\ coins' = lastStore'[1].coins
            /\ lastUpdated' = Some(lastStore'[1].at)
            /\ lastStore'[1].at = clock'
     /\ (finished' # None /\ finished'[1].name = "get-coins" /\ ~finished'[1].result.isError)
          => Range(finished'[1].result.content.coins) \subseteq Range(Received.coins)
     /\ (finished' # None /\ finished'[1].name = "find-coin-ids" /\ ~finished'[1].result.isError)
          => \A e \in Range(finished'[1].result.content) :
               e.id # None => \E c \in Range(Received.coins) : c.id = e.id[1]]_vars

C2_Witness ==
  /\ proc[Startup].pc = "done"
  /\ lastStore # None
  /\ lastStore[1].at > 1
  /\ lastStore[1].coins = <<Bt2, Bit>>
  /\ Answered("find-coin-ids")
  /\ \E e \in Range(finished[1].result.content) : e.id = Some(Bt2.id)

\* C3: whatever refreshes are in flight, one get-coins answer takes its page,
\* its totalPages and its lastUpdated from one and the same snapshot, the one
\* the last successful refresh received, and a find-coin-ids answer is the
\* lookup in that snapshot.
C3_ReadsSeeWholeSnapshot ==
  /\ Answered("get-coins") =>
       LET a  == finished[1].args
           pg == ArgOr(a, "page", DefaultPage * Den)
           ps == ArgOr(a, "pageSize", DefaultPageSize * Den)
           c  == finished[1].result.content
       IN  /\ c.coins = getCoins(Received.coins, pg, ps)
           /\ c.pagination.totalPages = getTotalPages(Received.coins, ps)
           /\ c.lastUpdated = IF Received.lastUpdated = None THEN None
                              ELSE Some(toISOString(Received.lastUpdated[1]))
  /\ Answered("find-coin-ids") =>
       LET names == finished[1].args.o.coins.a
       IN  finished[1].result.content =
             findCoinIds(Received.coins, [i \in 1..Len(names) |-> names[i].s])

C3_Witness ==
  /\ Answered("get-coins")
  /\ finished[1].result.content.coins # <<>>
  /\ finished[1].result.content.lastUpdated # None
  /\ \E p \in Procs : IsRefresh(p) /\ proc[p].pc = "json"

\* C4: refreshes in flight together are neither serialized nor merged into
\* one: each has issued its own request for the coin list, and the cache holds
\* the catalog and the time of the refresh that completed last.
C4_LastCompletionWins ==
  /\ \A p \in Procs :
       (IsRefresh(p) /\ proc[p].pc \in {"fetch", "json"}) => proc[p].sent = <<CoinListUrl>>
  /\ (finished # None /\ finished[1].name = "refresh-cache") => finished[1].sent = <<CoinListUrl>>
  /\ lastStore # None =>
       /\ coins = lastStore[1].coins
       /\ lastUpdated = Some(lastStore[1].at)

\* the refresh-cache call started after the startup refresh and stored before it
C4_Witness ==
  /\ Answered("refresh-cache")
  /\ proc[Startup].pc = "json"
  /\ coins = <<Nil, Bit, Eth>>
  /\ \E r \in Requests : proc[r].name = "refresh-cache" /\ proc[r].pc = "json"

\* C5: the cache starts EMPTY (no lastUpdated); it becomes POPULATED only in
\* the step of a refresh that succeeds; a failed refresh keeps the state; and
\* once POPULATED it is never EMPTY again.
C5_EmptyThenPopulatedForever ==
  /\ lastUpdated = None
  /\ [][/\ lastUpdated # None => lastUpdated' # None
        /\ (lastUpdated = None /\ lastUpdated' # None) => \E p \in Procs : RefreshSucceeds(p)
        /\ \A p \in Procs : RefreshFails(p) => ((lastUpdated' = None) <=> (lastUpdated = None))]_vars

C5_Witness ==
  /\ lastUpdated # None
  /\ finished # None
  /\ finished[1].name = "refresh-cache"
  /\ finished[1].cause \in Failures

\* ---- pagination and lookup, checked with one call at a time (SpecSeq)
\* the page sizes the validation lets through, as multiples of 1 / Den
ValidPageSizes ==
  {v.n : v \in {x \in PageSizeValues : x.t = "number" /\ x.n >= MinPageSize * Den
                                        /\ x.n <= MaxPageSize * Den}}
  \cup {DefaultPageSize * Den}

PageOf(a) == ArgOr(a, "page", DefaultPage * Den)
PageSizeOf(a) == ArgOr(a, "pageSize", DefaultPageSize * Den)

RECURSIVE ConcatPages(_, _, _)
ConcatPages(cs, ps, k) ==
  IF k = 0 THEN <<>> ELSE ConcatPages(cs, ps, k - 1) \o getCoins(cs, k * Den, ps)

\* C6: for every pageSize in [1,1000] and page >= 1 getCoins returns at most
\* pageSize records, those at the positions (page-1)*pageSize up to
\* (page-1)*pageSize + pageSize (positions of whole-numbered pages and sizes),
\* and pages 1..totalPages concatenated are the cached sequence.
C6_PagesPartitionSnapshot ==
  /\ Answered("get-coins") =>
       LET pg == PageOf(finished[1].args)
           ps == PageSizeOf(finished[1].args)
           c  == finished[1].result.content
       IN  /\ Len(c.coins) * Den <= ps
           /\ (pg % Den = 0 /\ ps % Den = 0) =>
                LET start == (pg \div Den - 1) * (ps \div Den)
                IN  c.coins = SubSeq(coins, start + 1, Min2(start + ps \div Den, Len(coins)))
  /\ \A ps \in ValidPageSizes : ConcatPages(coins, ps, getTotalPages(coins, ps)) = coins

\* C7: a valid get-coins call for a page greater than totalPages, and any page
\* of an empty cache, is answered without error with no coins and with the
\* requested page as currentPage.
C7_PageBeyondEndIsEmpty ==
  (/\ finished # None
   /\ finished[1].name = "get-coins"
   /\ finished[1].args.t = "object"
   /\ Parse(GetCoinsArgumentsSchema, finished[1].args).ok
   /\ PageOf(finished[1].args) > getTotalPages(coins, PageSizeOf(finished[1].args)) * Den)
  => /\ ~finished[1].result.isError
     /\ finished[1].result.content.coins = <<>>
     /\ finished[1].result.content.pagination.currentPage = PageOf(finished[1].args)

\* t is the ceiling of n / d
IsCeiling(t, n, d) == t * d >= n /\ (t - 1) * d < n

\* C8: getTotalPages(pageSize) is the ceiling of coins.length / pageSize for
\* every valid pageSize, 0 for the empty cache, and the totalPages of a
\* get-coins answer is that value for the page size the call used.
C8_TotalPagesIsCeiling ==
  /\ \A ps \in ValidPageSizes :
       /\ IsCeiling(getTotalPages(coins, ps), Len(coins) * Den, ps)
       /\ coins = <<>> => getTotalPages(coins, ps) = 0
  /\ Answered("get-coins") =>
       IsCeiling(finished[1].result.content.pagination.totalPages,
                 Len(coins) * Den, PageSizeOf(finished[1].args))

C8_Witness ==
  /\ Answered("get-coins")
  /\ finished[1].args.o.pageSize.t = "number"
  /\ finished[1].result.content.pagination.totalPages >= 2
  /\ finished[1].result.content.pagination.totalPages * PageSizeOf(finished[1].args)
       > Len(coins) * Den

\* the positions of the records whose lowercased name or symbol is the lowercased q
Matching(cs, q) ==
  {i \in 1..Len(cs) : toLowerCase(cs[i].name) = toLowerCase(q)
                      \/ toLowerCase(cs[i].symbol) = toLowerCase(q)}

\* C9: find-coin-ids answers one entry per name, in order, with the name
\* unchanged; the id is that of the first record whose lowercased name or
\* symbol equals the lowercased name, and it is null exactly when no record
\* matches.
C9_LookupFirstMatch ==
  Answered("find-coin-ids") =>
    LET names == finished[1].args.o.coins.a
        res   == finished[1].result.content
    IN  /\ Len(res) = Len(names)
        /\ \A i \in 1..Len(names) :
             LET m == Matching(coins, names[i].s)
             IN  /\ res[i].name = names[i].s
                 /\ (res[i].id = None) <=> (m = {})
                 /\ m # {} => res[i].id = Some(coins[CHOOSE k \in m : \A j \in m : k <= j].id)

\* ---- validation
NotNumber(v) == v.t # "number"
NotString(v) == v.t # "string"
Present(v) == v.t # "undefined"

\* the paths of the arguments that break the declared shape of the tool
OffendingPaths(name, args) ==
  IF name \notin {"get-coins", "find-coin-ids", "get-historical-data", "get-ohlc-data"} THEN {}
  ELSE IF args.t # "object" THEN {<<>>}
  ELSE LET a == args.o
       IN  CASE name = "get-coins" ->
                  {<<"page">> : x \in {1} \cap
                     (IF Present(a.page) /\ (NotNumber(a.page) \/ a.page.n < 1 * Den)
                      THEN {1} ELSE {})}
                  \cup
                  {<<"pageSize">> : x \in {1} \cap
                     (IF Present(a.pageSize) /\ (NotNumber(a.pageSize) \/ a.pageSize.n < 1 * Den
                                                  \/ a.pageSize.n > 1000 * Den)
                      THEN {1} ELSE {})}
             [] name = "find-coin-ids" ->
                  IF a.coins.t # "array" THEN {<<"coins">>}
                  ELSE {<<"coins", i - 1>> : i \in {j \in 1..Len(a.coins.a) : NotString(a.coins.a[j])}}
             [] OTHER ->
                  {<<f>> : f \in {g \in {"id", "vs_currency"} : NotString(a[g])}}
                  \cup {<<f>> : f \in {g \in {"from", "to"} : NotNumber(a[g])}}
                  \cup {<<"interval">> : x \in {1} \cap
                     (IF name = "get-historical-data"
                      THEN IF Present(a.interval)
                              /\ (NotString(a.interval) \/ a.interval.s \notin {"5m", "hourly", "daily"})
                           THEN {1} ELSE {}
                      ELSE IF NotString(a.interval) \/ a.interval.s \notin {"daily", "hourly"}
                           THEN {1} ELSE {})}

\* C10: a call whose arguments break the declared shape (wrong type, missing
\* required field, page < 1, pageSize outside [1,1000], interval outside the
\* enum of the tool) ends in the error "Invalid arguments" listing exactly the
\* offending paths, with no service method called and no upstream request
\* issued; no such call is ever waiting for upstream.
C10_InvalidArgumentsRejectedFirst ==
  /\ (finished # None /\ OffendingPaths(finished[1].name, finished[1].args) # {}) =>
       /\ finished[1].result.isError
       /\ finished[1].result.error = "Invalid arguments"
       /\ {i.path : i \in finished[1].result.issues}
            = OffendingPaths(finished[1].name, finished[1].args)
       /\ finished[1].cause = "sync"
       /\ finished[1].serviceCalls = 0
       /\ finished[1].sent = <<>>
  /\ \A r \in Requests :
       proc[r].pc # "idle" => OffendingPaths(proc[r].name, proc[r].args) = {}

C10_Witness ==
  /\ finished # None
  /\ finished[1].name = "get-coins"
  /\ finished[1].args.t = "object"
  /\ finished[1].args.o.page = Num(Den)
  /\ finished[1].args.o.pageSize = Num(5 * MaxPageSize * Den)
  /\ finished[1].result.isError
  /\ finished[1].result.error = "Invalid arguments"
  /\ finished[1].serviceCalls = 0

\* ---- dispatch
\* C11: find-coin-ids called with an empty list of names is rejected with
\* "Invalid arguments" and findCoinIds is not called.
C11_EmptyListRejected ==
  (/\ finished # None
   /\ finished[1].name = "find-coin-ids"
   /\ finished[1].args.t = "object"
   /\ finished[1].args.o.coins = Arr(<<>>))
  => /\ finished[1].result.isError
     /\ finished[1].result.error = "Invalid arguments"
     /\ finished[1].serviceCalls = 0

\* C12: a call naming none of the five tools ends in "Unknown tool" whatever
\* its arguments are, in the step of its arrival, with no upstream request
\* issued and coins and lastUpdated unchanged; no such call is ever waiting.
C12_UnknownToolRejected ==
  /\ [][(finished = None /\ finished' # None /\ finished'[1].name \notin KnownTools
           /\ finished'[1].name # "startup")
         => /\ finished'[1].result = UnknownTool
            /\ finished'[1].sent = <<>>
            /\ finished'[1].serviceCalls = 0
            /\ proc' = proc
            /\ coins' = coins
            /\ lastUpdated' = lastUpdated]_vars
  /\ [](\A r \in Requests : proc[r].pc # "idle" => proc[r].name \in KnownTools)

C12_Witness ==
  /\ finished # None
  /\ finished[1].name = "get_coins"
  /\ finished[1].args = Undef
  /\ finished[1].result = UnknownTool
  /\ coins # <<>>
  /\ proc[Startup].pc = "done"

ReadTools == {"get-coins", "find-coin-ids", "get-historical-data", "get-ohlc-data"}

SnapshotChanges == coins' # coins \/ lastUpdated' # lastUpdated

\* C13: coins and lastUpdated change only in the step in which a refresh
\* receives its catalog; no step of a get-coins, find-coin-ids,
\* get-historical-data or get-ohlc-data call, answered or failed, changes them;
\* and once the startup refresh is over every change is the step of a
\* refresh-cache call.
C13_OnlyRefreshWrites ==
  [][/\ SnapshotChanges =>
          \E p \in Procs : /\ proc[p].name \in {"startup", "refresh-cache"}
                           /\ proc[p].pc = "json"
                           /\ proc'[p] # proc[p]
                           /\ SettledWith(p) = Some("ok")
     /\ (\E r \in Requests : proc[r].name \in ReadTools /\ proc'[r] # proc[r])
          => ~SnapshotChanges
     /\ (finished = None /\ finished' # None /\ finished'[1].name \in ReadTools)
          => ~SnapshotChanges
     /\ (SnapshotChanges /\ proc[Startup].pc = "done")
          => \E r \in Requests : /\ proc[r].name = "refresh-cache"
                                  /\ proc[r].pc = "json"
                                  /\ proc'[r].pc = "resumed"]_vars

\* a range request is answered while the cache is populated and a refresh is in flight
C13_Witness ==
  /\ Answered("get-historical-data")
  /\ lastStore # None
  /\ coins = lastStore[1].coins
  /\ coins # <<>>
  /\ lastUpdated = Some(lastStore[1].at)
  /\ \E r \in Requests : proc[r].name = "refresh-cache" /\ proc[r].pc = "json"

UpstreamTools == {"refresh-cache", "get-historical-data", "get-ohlc-data"}

\* the one request an invocation of an upstream tool issues
RequestOf(name, args) ==
  CASE name = "get-historical-data" -> HistoricalUrl(args)
    [] name = "get-ohlc-data"       -> OHLCUrl(args)
    [] OTHER                        -> CoinListUrl

\* C14 as stated: every invocation of refresh-cache, get-historical-data or
\* get-ohlc-data, whatever its arguments, has issued exactly one upstream
\* request when it ends.
C14_EveryInvocationOneRequest ==
  (finished # None /\ finished[1].name \in UpstreamTools) => Len(finished[1].sent) = 1

\* C14: every refresh (the startup one included) and every get-historical-data
\* or get-ohlc-data call whose arguments pass validation issues exactly one
\* upstream request, the one for its own URL, and never another while it is
\* pending; get-coins and find-coin-ids issue none; when the request fails
\* (fetch rejects, !response.ok, unreadable body) the invocation ends in that
\* error, with no content, after that one request.
C14_OneRequestNoRetry ==
  /\ [](/\ \A p \in Procs :
            proc[p].pc \notin {"idle"} => proc[p].sent = <<RequestOf(proc[p].name, proc[p].args)>>
        /\ (finished # None /\ finished[1].name \in UpstreamTools \cup {"startup"}
              /\ OffendingPaths(finished[1].name, finished[1].args) = {})
             => finished[1].sent = <<RequestOf(finished[1].name, finished[1].args)>>
        /\ (finished # None /\ finished[1].name \in {"get-coins", "find-coin-ids"})
             => finished[1].sent = <<>>
        /\ (finished # None /\ finished[1].cause \in Failures)
             => /\ finished[1].result = ErrorOf(finished[1].cause)
                /\ Len(finished[1].sent) = 1)
  /\ [][\A p \in Procs :
          /\ (proc[p].pc # "idle" /\ proc'[p].pc # "idle") => proc'[p].sent = proc[p].sent
          /\ (proc[p].pc \in {"fetch", "json", "text"} /\ proc'[p] # proc[p]
                /\ proc'[p].pc # "text"
                /\ SettledWith(p) # None /\ SettledWith(p)[1] \in Failures)
               => /\ finished' # None
                  /\ finished'[1].proc = p
                  /\ finished'[1].result.isError]_vars

\* an OHLC request that upstream refuses, with the cache populated
C14_Witness ==
  /\ finished # None
  /\ finished[1].name = "get-ohlc-data"
  /\ finished[1].cause = "notok"
  /\ finished[1].result = UpstreamError
  /\ finished[1].sent = <<OHLCUrl(finished[1].args)>>
  /\ coins # <<>>

\* ---- overlapping calls
Waiting(p) == proc[p].pc \in {"fetch", "json", "text"}

\* the next free request slot
FreeSlot(r) == proc[r].pc = "idle" /\ \A q \in 1..(r - 1) : proc[q].pc # "idle"

\* C15: while invocations wait for upstream (and however long they wait),
\* every tool call that arrives is taken up: get-coins and find-coin-ids are
\* answered in the step of their arrival and an upstream tool issues its own
\* request; and every waiting invocation continues as soon as its own upstream
\* promise settles, whether or not the ones started before it have.
C15_WaitingDoesNotBlock ==
  (alive /\ finished = None) =>
    /\ \A r \in Requests :
         (FreeSlot(r) /\ \E p \in Procs \ {r} : Waiting(p)) =>
           \A name \in ToolNames : \A args \in FewArgsOf(name) :
             ENABLED CallTool(r, name, args)
    /\ \A p \in Procs :
         /\ proc[p].pc = "fetch" => \A o \in {"reject", "notok", "ok"} : ENABLED FetchSettles(p, o)
         /\ proc[p].pc = "text" => ENABLED TextSettles(p)
         /\ (proc[p].pc = "json" /\ IsRefresh(p)) =>
              \A body \in Catalogs : ENABLED RefreshJsonSettles(p, "ok", body, clock)
         /\ (proc[p].pc = "json" /\ proc[p].name = "get-historical-data") =>
              \A body \in HistBodies : ENABLED DataJsonSettles(p, "ok", body)
         /\ (proc[p].pc = "json" /\ proc[p].name = "get-ohlc-data") =>
              \A body \in OhlcBodies : ENABLED DataJsonSettles(p, "ok", body)
         /\ proc[p].pc = "resumed" => ENABLED HandlerResumes(p)

\* an OHLC call started after a historical-data call is answered while that
\* call and the startup refresh still wait for their fetch
C15_Witness ==
  /\ Answered("get-ohlc-data")
  /\ finished[1].proc = 2
  /\ proc[1].name = "get-historical-data"
  /\ proc[1].pc = "fetch"
  /\ proc[Startup].pc = "fetch"

\* C16: a refresh-cache call is answered with its confirmation only by the
\* handler resuming after its own refreshCoinList has stored the catalog it
\* received; the confirmation carries a timestamp, the lastUpdated of that
\* moment, which is the Date this refresh stored or the later one of a refresh
\* that completed in between.
C16_ConfirmationAfterReplacement ==
  [][/\ \A r \in Requests :
          (proc[r].pc # "resumed" /\ proc'[r].pc = "resumed") =>
            /\ proc[r].name = "refresh-cache"
            /\ RefreshSucceeds(r)
            /\ coins' = lastStore'[1].coins
            /\ proc'[r].stored = lastUpdated'
            /\ proc'[r].stored # None
     /\ (finished = None /\ finished' # None /\ finished'[1].name = "refresh-cache"
           /\ ~finished'[1].result.isError) =>
          LET r == finished'[1].proc
              c == finished'[1].result.content
          IN  /\ proc[r].pc = "resumed"
              /\ proc[r].stored # None
              /\ c.refreshedAt # None
              /\ lastUpdated # None
              /\ c.refreshedAt = Some(toISOString(lastUpdated[1]))
              /\ c.refreshedAt[1].iso >= proc[r].stored[1]
              /\ coins = lastStore[1].coins]_vars

\* a refresh-cache call is confirmed while another one has stored its catalog
\* and has not resumed yet
C16_Witness ==
  /\ Answered("refresh-cache")
  /\ finished[1].proc = 1
  /\ finished[1].result.content.refreshedAt = Some(toISOString(3))
  /\ proc[2].name = "refresh-cache"
  /\ proc[2].pc = "resumed"
  /\ proc[2].stored = Some(3)
  /\ coins = <<Bt2, Bit>>

\* ---- range requests
\* the ISO rendering iso (a count of whole milliseconds) is that of n / Den seconds
RendersSeconds(iso, n) ==
  /\ iso.iso * Den <= n * MsPerSecond
  /\ (iso.iso + 1) * Den > n * MsPerSecond

\* C17: a get-historical-data answer has timeRange.from and timeRange.to the
\* renderings of from and to seconds as milliseconds, interval the supplied
\* interval or "auto" when none was supplied, and data the body upstream
\* returned; its one request carried id, vs_currency, from and to as supplied
\* and an interval parameter exactly when one was supplied.
C17_HistoricalEchoesRequest ==
  Answered("get-historical-data") =>
    LET a == finished[1].args.o
        c == finished[1].result.content
        u == finished[1].sent[1]
    IN  /\ RendersSeconds(c.timeRange.from, a.from.n)
        /\ RendersSeconds(c.timeRange.to, a.to.n)
        /\ c.interval = IF a.interval = Undef THEN "auto" ELSE a.interval.s
        /\ finished[1].received # None
        /\ c.data = finished[1].received[1]
        /\ u.endpoint = "market_chart/range"
        /\ u.id = a.id.s /\ u.vs_currency = a.vs_currency.s
        /\ u.from = a.from.n /\ u.to = a.to.n
        /\ u.interval = IF a.interval = Undef THEN None ELSE Some(a.interval.s)

C17_Witness ==
  /\ Answered("get-historical-data")
  /\ finished[1].args.o.interval = Undef
  /\ finished[1].result.content.interval = "auto"
  /\ finished[1].result.content.data.prices # <<>>
  /\ finished[1].result.content.timeRange.to = toISOString(2 * MsPerSecond)
  /\ finished[1].sent[1].interval = None

\* C18: a get-ohlc-data answer has one bar per tuple of the body upstream
\* returned, in the same order, the i-th bar being exactly
\* {timestamp: t[0], open: t[1], high: t[2], low: t[3], close: t[4]} of the
\* i-th tuple t.
C18_OneBarPerTuple ==
  Answered("get-ohlc-data") =>
    LET bars   == finished[1].result.content.data
        tuples == finished[1].received[1]
    IN  /\ finished[1].received # None
        /\ Len(bars) = Len(tuples)
        /\ \A i \in 1..Len(tuples) :
             /\ DOMAIN bars[i] = {"timestamp", "open", "high", "low", "close"}
             /\ bars[i].timestamp = tuples[i][1]
             /\ bars[i].open = tuples[i][2]
             /\ bars[i].high = tuples[i][3]
             /\ bars[i].low = tuples[i][4]
             /\ bars[i].close = tuples[i][5]

C18_Witness ==
  /\ Answered("get-ohlc-data")
  /\ finished[1].received = Some(<<<<1, 5, 7, 4, 6>>, <<2, 6, 8, 5, 7>>>>)
  /\ Len(finished[1].result.content.data) = 2
  /\ finished[1].result.content.data[1].high = 7
  /\ finished[1].result.content.data[2].timestamp = 2

\* ---- descriptors
\* the tool a function-calling name stands for (underscores for hyphens)
ToolOfFunction ==
  [get_coins |-> "get-coins", find_coin_ids |-> "find-coin-ids",
   get_historical_data |-> "get-historical-data", refresh_cache |-> "refresh-cache",
   get_ohlc_data |-> "get-ohlc-data"]

\* descriptor d and schema sc have the same fields, the same required fields
\* and the same enum values
Agrees(d, sc) ==
  /\ DOMAIN d.properties = DOMAIN sc
  /\ d.required = {f \in DOMAIN sc : ~sc[f].optional}
  /\ \A f \in DOMAIN sc : d.properties[f].enum = sc[f].values

\* the descriptors ds, named by tool, describe exactly the five tools of the
\* dispatcher and each agrees with the dispatcher's schema
DescribesTheTools(ds, toolOf) ==
  /\ \A i \in 1..Len(ds) : ds[i].name \in DOMAIN toolOf
  /\ {toolOf[ds[i].name] : i \in 1..Len(ds)} = KnownTools
  /\ Len(ds) = Cardinality(KnownTools)
  /\ \A i \in 1..Len(ds) : Agrees(ds[i], SchemaOf(toolOf[ds[i].name]))

\* C19: whenever the server is running, the tool listing it answers with, the
\* function-calling definitions (of the built service and of the TypeScript
\* source) and the dispatcher's schemas describe the same five tools and agree
\* on each tool's field names, required fields and interval enum values.
C19_DescriptorsAgree ==
  alive =>
    /\ DescribesTheTools(ListTools, [n \in KnownTools |-> n])
    /\ DescribesTheTools(getOpenAIFunctionDefinitions, ToolOfFunction)
    /\ DescribesTheTools(getOpenAIFunctionDefinitionsTS, ToolOfFunction)

\* ---- startup
\* C20: the constructor starts the refresh without awaiting it (tool calls are
\* taken up while it is pending); when that refresh fails the process exits
\* in the same step and nothing happens afterwards, no pending call is ever
\* answered; the process exits for no other reason; a refresh-cache call that
\* fails is answered with its error, leaves the process running and every
\* other invocation as it was, and the server then takes up the next call.
C20_StartupFailureExits ==
  /\ proc[Startup].pc = "fetch"
  /\ \A name \in ToolNames : \A args \in FewArgsOf(name) : ENABLED CallTool(1, name, args)
  /\ [][/\ alive
        /\ RefreshFails(Startup) => ~alive'
        /\ ~alive' => (RefreshFails(Startup) /\ finished' # None /\ finished'[1].proc = Startup)
        /\ \A r \in Requests :
             RefreshFails(r) =>
               /\ alive'
               /\ finished' # None
               /\ finished'[1].proc = r
               /\ finished'[1].result.isError
               /\ proc'[r] = Idle
               /\ \A q \in Procs \ {r} : proc'[q] = proc[q]]_vars
  /\ [](alive =>
         /\ finished # None => ENABLED Deliver
         /\ finished = None =>
              \A r \in Requests : FreeSlot(r) =>
                \A name \in ToolNames : \A args \in FewArgsOf(name) :
                  ENABLED CallTool(r, name, args))

\* the process has exited on the failed startup refresh with a call pending
C20_Witness ==
  /\ ~alive
  /\ finished # None
  /\ finished[1].name = "startup"
  /\ finished[1].cause = "notok"
  /\ proc[1].name = "get-historical-data"
  /\ proc[1].pc = "json"
  /\ proc[2].name = "refresh-cache"

StartupInFlight == proc[Startup].pc \in {"fetch", "json"}

\* C21 as stated: every get-coins answer given while the startup refresh is
\* in flight has no coins, totalPages 0 and no lastUpdated, and every
\* find-coin-ids answer given then has a null id for every name.
C21_AnsweredFromEmptyWhileStarting ==
  /\ (StartupInFlight /\ Answered("get-coins")) =>
       /\ finished[1].result.content.coins = <<>>
       /\ finished[1].result.content.pagination.totalPages = 0
       /\ finished[1].result.content.lastUpdated = None
  /\ (StartupInFlight /\ Answered("find-coin-ids")) =>
       \A e \in Range(finished[1].result.content) : e.id = None

\* C21: while the startup refresh is in flight and no refresh-cache call has
\* stored a catalog, the cache is empty and a get-coins or find-coin-ids call
\* with valid arguments is taken up and answered in the step of its arrival,
\* without error and without an upstream request: get-coins with no coins,
\* totalPages 0 and no lastUpdated, find-coin-ids with one entry per name,
\* each with a null id.
C21_EmptyCacheAnswersWhileStarting ==
  /\ [](StartupInFlight /\ lastStore = None =>
         /\ coins = <<>>
         /\ lastUpdated = None
         /\ (finished # None /\ finished[1].name \in {"get-coins", "find-coin-ids"}
               /\ OffendingPaths(finished[1].name, finished[1].args) = {}) =>
              /\ ~finished[1].result.isError
              /\ finished[1].cause = "sync"
              /\ finished[1].sent = <<>>
         /\ Answered("get-coins") =>
              /\ finished[1].result.content.coins = <<>>
              /\ finished[1].result.content.pagination.totalPages = 0
              /\ finished[1].result.content.lastUpdated = None
         /\ Answered("find-coin-ids") =>
              /\ Len(finished[1].result.content) = Len(finished[1].args.o.coins.a)
              /\ \A i \in 1..Len(finished[1].result.content) :
                   /\ finished[1].result.content[i].id = None
                   /\ finished[1].result.content[i].name = finished[1].args.o.coins.a[i].s
         /\ (alive /\ finished = None /\ FreeSlot(1)) =>
              \A name \in {"get-coins", "find-coin-ids"} : \A args \in ArgsOf(name) :
                ENABLED CallTool(1, name, args))
  /\ [][(StartupInFlight /\ finished = None /\ finished' # None
           /\ finished'[1].name \in {"get-coins", "find-coin-ids"})
         => /\ proc' = proc
            /\ StartupInFlight']_vars

\* get-coins is answered while the startup refresh reads its body
C21_Witness ==
  /\ proc[Startup].pc = "json"
  /\ lastStore = None
  /\ Answered("get-coins")
  /\ finished[1].args.t = "object"
  /\ finished[1].args.o.page = Num(2 * Den)
  /\ finished[1].args.o.pageSize = Num(Den + 1)
  /\ finished[1].result.content.coins = <<>>
  /\ finished[1].result.content.pagination.totalPages = 0
  /\ finished[1].result.content.lastUpdated = None

\* ---- the snapshot
\* C22: in every state a non-empty coins has a lastUpdated, and in every step,
\* whichever refresh or tool call takes it and whether it succeeds or fails,
\* lastUpdated stays present once present and its Date does not decrease
\* (the Dates being readings of a system clock that is not set back).
C22_StampPresentAndNonDecreasing ==
  /\ [](coins # <<>> => lastUpdated # None)
  /\ [][lastUpdated # None =>
          /\ lastUpdated' # None
          /\ lastUpdated'[1] >= lastUpdated[1]]_vars

\* a refresh-cache call has failed on a populated cache after the startup
\* refresh ended, while another refresh-cache call reads its body
C22_Witness ==
  /\ finished # None
  /\ finished[1].name = "refresh-cache"
  /\ finished[1].cause = "reject"
  /\ coins # <<>>
  /\ lastUpdated = Some(3)
  /\ proc[Startup].pc = "done"
  /\ \E r \in Requests : proc[r].name = "refresh-cache" /\ proc[r].pc = "json"

====
